---- MODULE Spec2Model ----
(***************************************************************************)
(* Roo-Code prompt sections: the two ESLint rule resolvers                 *)
(* (gen-eslint-rules.ts, in-process; the sub-process variant with          *)
(* runCommand) and the custom-instructions aggregator                      *)
(* (custom-instructions.ts).                                               *)
(*                                                                         *)
(* Text is a sequence of tokens.  JSON values, exceptions and promise      *)
(* outcomes are tagged records ([t |-> ...]).                              *)
(***************************************************************************)
EXTENDS Integers, Sequences, FiniteSets, TLC

VARIABLES
    \* ---- linter resolution (getWorkspaceESLintRules, both variants)
    variant,        \* "inproc" (gen-eslint-rules.ts) or "subproc" (runCommand variant)
    hasWorkspace,   \* vscode.workspace.workspaceFolders has a first folder
    lfs,            \* workspace root: config file name -> file state
    probe,          \* what the linter's own configuration engine answers
    lpc,            \* position inside getWorkspaceESLintRules
    idx,            \* index of the for-loop over configPaths
    fullConfig,     \* local fullConfig
    configPath,     \* local configPath (sub-process variant)
    lresult,        \* the settled value of the returned promise
    parsed,         \* config files handed to readFileSync so far
    visited,        \* config files handed to existsSync so far
    probed,         \* the probe has been attempted
    lruns,          \* invocations completed before the current one
    lprev,          \* what the previous invocation returned
    \* ---- runCommand
    toPrint,        \* the text the child process would write to stdout if left alone
    sent,           \* how many tokens of it the child has written
    output,         \* local output
    stderrLogged,   \* chunks of stderr drained to console.log
    errored,        \* the child's 'error' event has fired
    closed,         \* the child's 'close' event has fired
    firstTerminal,  \* the first of the close/error events: Pending, or its argument
    cpromise,       \* the promise runCommand returned
    \* ---- custom instructions (loadRuleFiles, addCustomInstructions)
    entry,                      \* the exported function invoked: "load" or "build"
    rfs,                        \* working directory: rule source name -> source state
    mode,                       \* argument mode
    language,                   \* options.language ("" when not supplied)
    globalCustomInstructions,   \* argument globalCustomInstructions
    modeCustomInstructions,     \* argument modeCustomInstructions
    rooIgnoreInstructions,      \* options.rooIgnoreInstructions (<<>> when not supplied)
    ipc,                        \* position inside the invoked function
    fileIdx,                    \* index of the for-loop of loadRuleFiles
    combinedRules,              \* local combinedRules of loadRuleFiles
    modeRuleContent,            \* local modeRuleContent
    sections,                   \* local sections
    rules,                      \* local rules
    iresult,                    \* the settled value of the returned promise
    iruns,                      \* invocations completed before the current one
    iprev                       \* what the previous invocation returned

lintVars == <<variant, hasWorkspace, lfs, probe, lpc, idx, fullConfig, configPath,
              lresult, parsed, visited, probed, lruns, lprev>>

cmdVars == <<toPrint, sent, output, stderrLogged, errored, closed, firstTerminal, cpromise>>

instrVars == <<entry, rfs, mode, language, globalCustomInstructions, modeCustomInstructions,
               rooIgnoreInstructions, ipc, fileIdx, combinedRules, modeRuleContent,
               sections, rules, iresult, iruns, iprev>>

vars == <<lintVars, cmdVars, instrVars>>

(***************************************************************************)
(* Bounds                                                                  *)
(***************************************************************************)
\* at most this many of the conventional config files exist in the workspace root
MaxPresent == 2
\* at most this many stderr chunks are written by the child process
MaxStderr == 1
\* file names available at each level of a rule directory
MaxFiles == 2
\* at most this many of the four rule sources exist in the working directory
MaxRuleSources == 2
\* invocations of a pipeline against the same unchanged filesystem
MaxRuns == 2

(***************************************************************************)
(* Values                                                                  *)
(***************************************************************************)
Null == [t |-> "null"]
Undefined == [t |-> "undefined"]
Pending == [t |-> "pending"]
Throw(code) == [t |-> "throw", code |-> code]
IsThrow(v) == v.t = "throw"

\* ESLint severities used in the rule mappings of the model ("warn", "error")
Severities == {1, 2}

\* a rule mapping: rule id -> severity, as a set of pairs
RuleMap(m) == [t |-> "map", m |-> m]
RuleMaps == {RuleMap({})} \cup {RuleMap({<<"semi", s>>}) : s \in Severities}

\* a JSON object with the two properties the resolvers look at
Obj(r, e) == [t |-> "obj", rules |-> r, eslintConfig |-> e]

\* Linter.Config objects: rules absent, empty or non-empty
Configs == {Obj(r, Undefined) : r \in {Undefined} \cup RuleMaps}

\* package.json documents: no eslintConfig, or an embedded config
Packages == {Obj(Undefined, Undefined)} \cup {Obj(Undefined, c) : c \in Configs}

JsonValues == {Null} \cup Configs \cup Packages

Digit == <<"1", "2", "3", "4", "5", "6", "7", "8", "9">>

\* JSON.stringify, as tokens
RECURSIVE Stringify(_)
Stringify(v) ==
    CASE v.t = "null" -> <<"null">>
      [] v.t = "map" ->
            IF v.m = {} THEN <<"{", "}">>
            ELSE LET e == CHOOSE e \in v.m : TRUE
                 IN <<"{", "\"" \o e[1] \o "\":", Digit[e[2]], "}">>
      [] v.t = "obj" ->
            <<"{">>
            \o (IF v.rules.t = "undefined" THEN <<>>
                ELSE <<"\"rules\":">> \o Stringify(v.rules))
            \o (IF v.eslintConfig.t = "undefined" THEN <<>>
                ELSE <<"\"eslintConfig\":">> \o Stringify(v.eslintConfig))
            \o <<"}">>

\* JSON.parse: the value whose text this is, a SyntaxError for any other text
JSONParse(text) ==
    IF \E v \in JsonValues : Stringify(v) = text
    THEN CHOOSE v \in JsonValues : Stringify(v) = text
    ELSE Throw("SyntaxError")

\* a text that is not JSON (a truncated object)
Garbage == <<"{", "\"rules\":">>

\* JavaScript truthiness of the values above: every object is truthy, {} included
Truthy(v) == v.t \notin {"null", "undefined"}

\* v.name: a TypeError on null and undefined
GetProp(v, name) ==
    IF v.t \in {"null", "undefined"} THEN Throw("TypeError")
    ELSE IF v.t # "obj" THEN Undefined
    ELSE IF name = "rules" THEN v.rules ELSE v.eslintConfig

\* v?.rules
OptRules(v) == IF v.t \in {"null", "undefined"} THEN Undefined ELSE GetProp(v, "rules")

\* try { return v } catch { return fallback }
TryCatch(v, fallback) == IF IsThrow(v) THEN fallback ELSE v

(***************************************************************************)
(* The workspace root                                                      *)
(***************************************************************************)
Absent == [kind |-> "absent", text |-> <<>>]
Unreadable == [kind |-> "unreadable", text |-> <<>>]
File(text) == [kind |-> "file", text |-> text]

RcTexts == {Stringify(v) : v \in {Null} \cup Configs} \cup {Garbage}
PkgTexts == {Stringify(v) : v \in {Null} \cup Packages} \cup {Garbage}

PresentStates(name) ==
    {Unreadable} \cup {File(x) : x \in (IF name = "package.json" THEN PkgTexts ELSE RcTexts)}

\* fs.existsSync
ExistsSync(f) == f.kind # "absent"

\* fs.readFileSync(path, "utf8")
ReadFileSync(f) ==
    CASE f.kind = "file" -> [t |-> "text", text |-> f.text]
      [] f.kind = "absent" -> Throw("ENOENT")
      [] OTHER -> Throw("EACCES")

(***************************************************************************)
(* gen-eslint-rules.ts (in-process variant)                                *)
(***************************************************************************)
ReversedConfigNames ==
    <<"package.json", ".eslintrc.yml", ".eslintrc.yaml", ".eslintrc.json", ".eslintrc.js",
      ".eslintrc">>

getESLintConfigPaths ==
    <<".eslintrc", ".eslintrc.js", ".eslintrc.json", ".eslintrc.yaml", ".eslintrc.yml",
      "package.json">>

getESLintConfigFromPackageJson(f) ==
    LET content == ReadFileSync(f)
        packageJson == IF IsThrow(content) THEN content ELSE JSONParse(content.text)
        eslintConfig == IF IsThrow(packageJson) THEN packageJson
                        ELSE GetProp(packageJson, "eslintConfig")
        body == IF IsThrow(eslintConfig) THEN eslintConfig
                ELSE IF Truthy(eslintConfig) THEN eslintConfig ELSE Null
    IN TryCatch(body, Null)

parseESLintConfigBody(name, f) ==
    IF ~ExistsSync(f) THEN Null
    ELSE IF name = "package.json" THEN getESLintConfigFromPackageJson(f)
    ELSE LET content == ReadFileSync(f)
         IN IF IsThrow(content) THEN content ELSE JSONParse(content.text)

parseESLintConfig(name, f) == TryCatch(parseESLintConfigBody(name, f), Null)

\* new ESLint({cwd}).calculateConfigForFile("dummy.ts") inside try/catch
getFullESLintConfigInproc(p) ==
    TryCatch(IF p.t = "threw" THEN Throw("ESLintError") ELSE p.config, Null)

(***************************************************************************)
(* The runCommand variant (sub-process)                                    *)
(***************************************************************************)
getESLintConfigPathsSub ==
    <<".eslintrc", ".eslintrc.js", ".eslintrc.json", ".eslintrc.yaml", ".eslintrc.yml">>

Range(s) == {s[i] : i \in 1..Len(s)}

\* getConfigPath: the first of the config paths that exists, "" standing for null
getConfigPath(fs) ==
    LET paths == getESLintConfigPathsSub
        hits == {i \in 1..Len(paths) : ExistsSync(fs[paths[i]])}
    IN IF hits = {} THEN "" ELSE paths[CHOOSE i \in hits : \A j \in hits : i <= j]

\* await runCommand(...) then JSON.parse(result), inside try/catch
getFullESLintConfigSub(p) ==
    TryCatch(IF p.t = "rejected" THEN Throw("rejected") ELSE JSONParse(p.text), Null)

(***************************************************************************)
(* Inputs                                                                  *)
(***************************************************************************)
ConfigNames == Range(getESLintConfigPaths)

Workspaces ==
    UNION {{[n \in ConfigNames |-> IF n \in P THEN g[n] ELSE Absent] :
                g \in {h \in [P -> UNION {PresentStates(n) : n \in P}] :
                          \A n \in P : h[n] \in PresentStates(n)}} :
           P \in {Q \in SUBSET ConfigNames : Cardinality(Q) <= MaxPresent}}

InprocProbes == {[t |-> "threw"]} \cup {[t |-> "config", config |-> c] : c \in Configs}
SubprocProbes == {[t |-> "rejected", text |-> <<>>]}
                     \cup {[t |-> "resolved", text |-> x] : x \in RcTexts}

NoWorkspaceFs == [n \in ConfigNames |-> Absent]

InitLint ==
    /\ variant \in {"inproc", "subproc"}
    /\ hasWorkspace \in BOOLEAN
    /\ IF hasWorkspace
       THEN /\ lfs \in Workspaces
            /\ probe \in (IF variant = "inproc" THEN InprocProbes ELSE SubprocProbes)
       ELSE /\ variant = "inproc"
            /\ lfs = NoWorkspaceFs
            /\ probe = [t |-> "threw"]
    /\ lpc = "start"
    /\ idx = 1
    /\ fullConfig = Undefined
    /\ configPath = ""
    /\ lresult = Pending
    /\ parsed = {}
    /\ visited = {}
    /\ probed = FALSE
    /\ lruns = 0
    /\ lprev = Pending

\* no resolution in progress
IdleLint ==
    /\ variant = "inproc"
    /\ hasWorkspace = FALSE
    /\ lfs = NoWorkspaceFs
    /\ probe = [t |-> "threw"]
    /\ lpc = "idle"
    /\ idx = 1
    /\ fullConfig = Undefined
    /\ configPath = ""
    /\ lresult = Pending
    /\ parsed = {}
    /\ visited = {}
    /\ probed = FALSE
    /\ lruns = 0
    /\ lprev = Pending

(***************************************************************************)
(* getWorkspaceESLintRules, in-process                                     *)
(***************************************************************************)
\* lines 75-81: the workspace check, the probe and its test
IP_Probe ==
    /\ variant = "inproc"
    /\ lpc = "start"
    /\ IF ~hasWorkspace
       THEN /\ lresult' = Null
            /\ lpc' = "done"
            /\ UNCHANGED <<fullConfig, probed>>
       ELSE LET fc == getFullESLintConfigInproc(probe)
            IN /\ fullConfig' = fc
               /\ probed' = TRUE
               /\ IF Truthy(OptRules(fc))
                  THEN /\ lresult' = OptRules(fc)
                       /\ lpc' = "done"
                  ELSE /\ lresult' = lresult
                       /\ lpc' = "scan"
    /\ idx' = 1
    /\ UNCHANGED <<variant, hasWorkspace, lfs, probe, configPath, parsed, visited, lruns, lprev,
                   cmdVars, instrVars>>

\* lines 84-93: one iteration of the loop over configPaths, the final return null
IP_Scan ==
    /\ variant = "inproc"
    /\ lpc = "scan"
    /\ LET name == getESLintConfigPaths[idx]
           f == lfs[name]
           config == parseESLintConfig(name, f)
       IN /\ visited' = visited \cup {name}
          /\ parsed' = IF ExistsSync(f) THEN parsed \cup {name} ELSE parsed
          /\ IF IsThrow(config)
             THEN /\ lresult' = config
                  /\ lpc' = "done"
                  /\ idx' = idx
             ELSE IF Truthy(OptRules(config))
             THEN /\ lresult' = OptRules(config)
                  /\ lpc' = "done"
                  /\ idx' = idx
             ELSE IF idx = Len(getESLintConfigPaths)
             THEN /\ lresult' = Null
                  /\ lpc' = "done"
                  /\ idx' = idx
             ELSE /\ lresult' = lresult
                  /\ lpc' = "scan"
                  /\ idx' = idx + 1
    /\ UNCHANGED <<variant, hasWorkspace, lfs, probe, fullConfig, configPath, probed, lruns, lprev, cmdVars, instrVars>>

(***************************************************************************)
(* getWorkspaceESLintRules, sub-process                                    *)
(***************************************************************************)
\* lines 109-113: getConfigPath and the early return
SP_GetConfigPath ==
    /\ variant = "subproc"
    /\ lpc = "start"
    /\ LET cp == getConfigPath(lfs)
           paths == getESLintConfigPathsSub
       IN /\ configPath' = cp
          /\ visited' = IF cp = "" THEN Range(paths)
                        ELSE {paths[i] : i \in {j \in 1..Len(paths) :
                                  \A k \in 1..(j - 1) : ~ExistsSync(lfs[paths[k]])}}
          /\ IF cp = ""
             THEN /\ lresult' = Null
                  /\ lpc' = "done"
             ELSE /\ lresult' = lresult
                  /\ lpc' = "probe"
    /\ UNCHANGED <<variant, hasWorkspace, lfs, probe, idx, fullConfig, parsed, probed, lruns, lprev, cmdVars, instrVars>>

\* lines 115-121: the probe and the return of fullConfig
SP_Probe ==
    /\ variant = "subproc"
    /\ lpc = "probe"
    /\ LET fc == getFullESLintConfigSub(probe)
       IN /\ fullConfig' = fc
          /\ probed' = TRUE
          /\ lresult' = IF Truthy(fc) THEN fc ELSE Null
          /\ lpc' = "done"
    /\ UNCHANGED <<variant, hasWorkspace, lfs, probe, idx, configPath, parsed, visited, lruns, lprev, cmdVars, instrVars>>

\* a further call of getWorkspaceESLintRules once the previous one has settled
LintReinvoke ==
    /\ lpc = "done"
    /\ lruns + 1 < MaxRuns
    /\ lruns' = lruns + 1
    /\ lprev' = lresult
    /\ lresult' = Pending
    /\ lpc' = "start"
    /\ parsed' = {}
    /\ visited' = {}
    /\ probed' = FALSE
    /\ UNCHANGED <<variant, hasWorkspace, lfs, probe, idx, fullConfig, configPath, cmdVars,
                   instrVars>>

(***************************************************************************)
(* runCommand                                                              *)
(***************************************************************************)
\* the exit codes a 'close' event carries: a number, or null when a signal ended the child
ExitCodes == {[t |-> "int", n |-> k] : k \in {0, 1, 2}} \cup {Null}

\* Number(code): null converts to 0
Number(code) == IF code.t = "null" THEN 0 ELSE code.n

\* resolve/reject of a promise act only while it is pending
Settle(p, outcome) == IF p.t = "pending" THEN outcome ELSE p

Resolved(text) == [t |-> "resolved", text |-> text]
Rejected == [t |-> "rejected", text |-> <<>>]

\* lines 49-56: the 'close' handler's choice
CloseOutcome(code, out) ==
    IF Number(code) = 0 \/ Number(code) = 1 THEN Resolved(out) ELSE Rejected

\* lines 32-38: spawn, output = "", the promise pending
InitCmd ==
    /\ toPrint \in RcTexts
    /\ sent = 0
    /\ output = <<>>
    /\ stderrLogged = 0
    /\ errored = FALSE
    /\ closed = FALSE
    /\ firstTerminal = Pending
    /\ cpromise = Pending

IdleCmd ==
    /\ toPrint = <<>>
    /\ sent = 0
    /\ output = <<>>
    /\ stderrLogged = 0
    /\ errored = FALSE
    /\ closed = TRUE
    /\ firstTerminal = Pending
    /\ cpromise = Pending

\* lines 40-42: child.stdout.on("data")
OnStdoutData ==
    /\ ~closed
    /\ \E k \in 1..Len(toPrint) :
          /\ sent + k <= Len(toPrint)
          /\ output' = output \o SubSeq(toPrint, sent + 1, sent + k)
          /\ sent' = sent + k
    /\ UNCHANGED <<toPrint, stderrLogged, errored, closed, firstTerminal, cpromise, lintVars, instrVars>>

\* lines 44-47: child.stderr.on("data")
OnStderrData ==
    /\ ~closed
    /\ stderrLogged < MaxStderr
    /\ stderrLogged' = stderrLogged + 1
    /\ UNCHANGED <<toPrint, sent, output, errored, closed, firstTerminal, cpromise, lintVars, instrVars>>

\* lines 49-56: child.on("close")
OnClose ==
    /\ ~closed
    /\ \E code \in ExitCodes :
          /\ cpromise' = Settle(cpromise, CloseOutcome(code, output))
          /\ firstTerminal' = IF firstTerminal = Pending
                              THEN [t |-> "close", code |-> code] ELSE firstTerminal
    /\ closed' = TRUE
    /\ UNCHANGED <<toPrint, sent, output, stderrLogged, errored, lintVars, instrVars>>

\* lines 59-62: child.on("error")
OnError ==
    /\ ~closed
    /\ ~errored
    /\ errored' = TRUE
    /\ cpromise' = Settle(cpromise, Rejected)
    /\ firstTerminal' = IF firstTerminal = Pending THEN [t |-> "error"] ELSE firstTerminal
    /\ UNCHANGED <<toPrint, sent, output, stderrLogged, closed, lintVars, instrVars>>

(***************************************************************************)
(* custom-instructions.ts: text helpers                                    *)
(***************************************************************************)
Ok(text) == [t |-> "ok", text |-> text]

IsSpace(c) == c \in {" ", "\n"}

\* String.prototype.trim
RECURSIVE TrimStart(_)
TrimStart(s) == IF s # <<>> /\ IsSpace(Head(s)) THEN TrimStart(Tail(s)) ELSE s

RECURSIVE TrimEnd(_)
TrimEnd(s) == IF s # <<>> /\ IsSpace(s[Len(s)]) THEN TrimEnd(SubSeq(s, 1, Len(s) - 1)) ELSE s

Trim(s) == TrimEnd(TrimStart(s))

\* Array.prototype.join
RECURSIVE Join(_, _)
Join(parts, sep) ==
    IF parts = <<>> THEN <<>>
    ELSE IF Len(parts) = 1 THEN parts[1]
    ELSE parts[1] \o sep \o Join(Tail(parts), sep)

BlankLine == <<"\n", "\n">>

\* the working directory of the model
Cwd == "/ws"

(***************************************************************************)
(* The working directory: rule sources                                     *)
(***************************************************************************)
FileNames == <<"a.md", "b.md", "c.md", "d.md">>
DirNames == SubSeq(FileNames, 1, MaxFiles)
SubDir == "sub"

\* the regular files a rule directory may hold (relative paths), in readdir order
TreePaths ==
    [i \in 1..MaxFiles |-> <<DirNames[i]>>] \o [i \in 1..MaxFiles |-> <<SubDir, DirNames[i]>>]

\* a directory tree: each path absent, a readable file, or a file whose read fails EACCES
Trees == [Range(TreePaths) -> {"absent", "ok", "eacces"}]
EmptyTree == [p \in Range(TreePaths) |-> "absent"]

JoinPath(rel) == IF Len(rel) = 1 THEN rel[1] ELSE rel[1] \o "/" \o rel[2]

\* what a file beneath a rule directory holds
ContentOf(rel) == <<"content of " \o JoinPath(rel), "\n">>

RuleAbsent == [kind |-> "absent", text |-> <<>>, err |-> "", tree |-> EmptyTree, listable |-> TRUE]
RuleFile(text, err) ==
    [kind |-> "file", text |-> text, err |-> err, tree |-> EmptyTree, listable |-> TRUE]
RuleDir(tree, listable) ==
    [kind |-> "dir", text |-> <<>>, err |-> "", tree |-> tree, listable |-> listable]

\* utils/fs fileExistsAtPath and isDirectory
fileExistsAtPath(src) == src.kind # "absent"
isDirectory(src) == src.kind = "dir"

\* fs.readFile(filePath, "utf8") on a rule source that is not a directory
ReadRuleFile(src) == IF src.err = "" THEN Ok(src.text) ELSE Throw(src.err)

\* fs.readdir(filePath, {withFileTypes: true, recursive: true}): Dirents carry the
\* entry's own name and, apart, its parent directory
Dirent(rel) ==
    [name |-> rel[Len(rel)], parent |-> SubSeq(rel, 1, Len(rel) - 1), isFile |-> TRUE]

Dirents(paths) == [i \in 1..Len(paths) |-> Dirent(paths[i])]

SubDirDirent(nested) ==
    IF nested = <<>> THEN <<>> ELSE <<[name |-> SubDir, parent |-> <<>>, isFile |-> FALSE]>>

ReaddirOf(top, nested) == Dirents(top) \o SubDirDirent(nested) \o Dirents(nested)

Readdir(tree) ==
    ReaddirOf(SelectSeq(TreePaths, LAMBDA p : tree[p] # "absent" /\ Len(p) = 1),
              SelectSeq(TreePaths, LAMBDA p : tree[p] # "absent" /\ Len(p) = 2))

\* fs.readFile of a path beneath a rule directory
ReadFileIn(tree, rel) ==
    IF rel \in Range(TreePaths)
    THEN CASE tree[rel] = "ok" -> Ok(ContentOf(rel))
           [] tree[rel] = "eacces" -> Throw("EACCES")
           [] OTHER -> Throw("ENOENT")
    ELSE IF rel = <<SubDir>> /\ \E p \in Range(TreePaths) : Len(p) = 2 /\ tree[p] # "absent"
    THEN Throw("EISDIR")
    ELSE Throw("ENOENT")

(***************************************************************************)
(* safeReadFile                                                            *)
(***************************************************************************)
FileLabel(file) ==
    <<"# " \o file, "\n", "\n",
      "The following is provided by a root-level " \o file
          \o " file where the user has specified instructions for this working directory ("
          \o Cwd \o ")",
      "\n", "\n">>

DirLabel(file) ==
    <<"# " \o file \o "/", "\n", "\n",
      "The following is provided by a root-level " \o file
          \o "/ directory where the user has specified instructions for this working directory ("
          \o Cwd \o ")",
      "\n", "\n">>

\* line 18: path.resolve(filePath, file.name), relative to filePath
ResolveRuleFile(d) == <<d.name>>

ResolveAll(files) == [i \in 1..Len(files) |-> ResolveRuleFile(files[i])]

\* lines 21-23: one file read, trimmed and labelled with its path
RuleFileBlock(file, rel, read) ==
    IF IsThrow(read) THEN read
    ELSE Ok(<<Cwd \o "/" \o file \o "/" \o JoinPath(rel) \o ":", "\n">> \o Trim(read.text))

\* lines 19-25: Promise.all and the join; the first rejection rejects the whole
JoinBlocks(blocks) ==
    IF \E i \in 1..Len(blocks) : IsThrow(blocks[i])
    THEN blocks[CHOOSE i \in 1..Len(blocks) :
                    IsThrow(blocks[i]) /\ \A j \in 1..(i - 1) : ~IsThrow(blocks[j])]
    ELSE Ok(Join([i \in 1..Len(blocks) |-> blocks[i].text], BlankLine))

ReadAll(file, tree, resolved) ==
    JoinBlocks([i \in 1..Len(resolved) |->
                   RuleFileBlock(file, resolved[i], ReadFileIn(tree, resolved[i]))])

\* lines 15-25: the files of the directory, each read and labelled, joined
DirectoryContent(file, src) ==
    IF ~src.listable THEN Throw("EACCES")
    ELSE ReadAll(file, src.tree,
                 ResolveAll(SelectSeq(Readdir(src.tree), LAMBDA d : d.isFile)))

\* lines 26-29: the directory's label; the inner catch leaves the instructions empty
DirectoryInstructions(file, ruleFileContent) ==
    IF IsThrow(ruleFileContent) THEN Ok(<<>>)
    ELSE Ok(DirLabel(file) \o ruleFileContent.text)

\* lines 31-35: the single file, labelled when it has content
FileInstructions(file, read) ==
    IF IsThrow(read) THEN read
    ELSE IF Trim(read.text) # <<>> THEN Ok(FileLabel(file) \o Trim(read.text))
    ELSE Ok(<<>>)

\* line 40: the error codes the outer catch swallows
AllCodesSwallowed == {"ENOENT", "EISDIR", "EACCES"}

SwallowedCodes == {"ENOENT", "EISDIR"}

\* lines 38-44: the outer catch
OuterCatch(r) == IF IsThrow(r) /\ r.code \in SwallowedCodes THEN Ok(<<>>) ELSE r

safeReadFile(file, src) ==
    OuterCatch(IF ~fileExistsAtPath(src) THEN Ok(<<>>)
               ELSE IF isDirectory(src)
               THEN DirectoryInstructions(file, DirectoryContent(file, src))
               ELSE FileInstructions(file, ReadRuleFile(src)))

(***************************************************************************)
(* loadRuleFiles                                                           *)
(***************************************************************************)
ruleFiles == <<".clinerules", ".cursorrules", ".windsurfrules">>

\* lines 52-54: content appended between newlines when there is any
Combine(combined, content) ==
    IF IsThrow(content) THEN content
    ELSE IF content.text # <<>> THEN Ok(combined \o <<"\n">> \o content.text \o <<"\n">>)
    ELSE Ok(combined)

\* lines 51-54: one iteration of the loop, on the rules combined so far
LoadRuleFile(combined, file, src) == Combine(combined, safeReadFile(file, src))

\* the loop from iteration i on
RECURSIVE LoadRuleFilesFrom(_, _, _)
RECURSIVE LoadRuleFilesNext(_, _, _)
LoadRuleFilesNext(r, i, fs) == IF IsThrow(r) THEN r ELSE LoadRuleFilesFrom(r.text, i, fs)

LoadRuleFilesFrom(combined, i, fs) ==
    IF i > Len(ruleFiles) THEN Ok(combined)
    ELSE LoadRuleFilesNext(LoadRuleFile(combined, ruleFiles[i], fs[ruleFiles[i]]), i + 1, fs)

loadRuleFiles(fs) == LoadRuleFilesFrom(<<>>, 1, fs)

(***************************************************************************)
(* addCustomInstructions                                                   *)
(***************************************************************************)
\* shared/language LANGUAGES
LanguageName(code) == IF code = "fr" THEN "Francais" ELSE code

ModeRuleFile(m) == ".clinerules-" \o m

Banner ==
    <<"\n", "====", "\n", "\n", "USER'S CUSTOM INSTRUCTIONS", "\n", "\n",
      "The following additional instructions are provided by the user, and should be followed to the best of your ability without interfering with the TOOL USE guidelines.",
      "\n", "\n">>

\* lines 77-92: the sections pushed before the rules
LeadingSections(lang, global, modeInstr) ==
    (IF lang # ""
     THEN <<(<<"Language Preference:", "\n",
              "You should always speak and think in the \"" \o LanguageName(lang) \o "\" ("
                  \o lang
                  \o ") language unless the user gives you instructions below to do otherwise.">>)>>
     ELSE <<>>)
    \o (IF Trim(global) # <<>>
        THEN <<(<<"Global Instructions:", "\n">> \o Trim(global))>> ELSE <<>>)
    \o (IF Trim(modeInstr) # <<>>
        THEN <<(<<"Mode-specific Instructions:", "\n">> \o Trim(modeInstr))>> ELSE <<>>)

\* the pushes in another order: ignore instructions ahead of the mode rule file
RulesBeforeLoadSwapped(m, modeRules, ignore) ==
    (IF ignore # <<>> THEN <<ignore>> ELSE <<>>)
    \o (IF modeRules # <<>> /\ Trim(modeRules) # <<>>
        THEN <<(<<"# Rules from " \o ModeRuleFile(m) \o ":", "\n">> \o modeRules)>>
        ELSE <<>>)

\* lines 95-105: the rules pushed before loadRuleFiles
RulesBeforeLoad(m, modeRules, ignore) ==
    (IF modeRules # <<>> /\ Trim(modeRules) # <<>>
     THEN <<(<<"# Rules from " \o ModeRuleFile(m) \o ":", "\n">> \o modeRules)>>
     ELSE <<>>)
    \o (IF ignore # <<>> THEN <<ignore>> ELSE <<>>)

\* lines 109-111: the generic rules pushed last
RulesAfterLoad(rs, generic) ==
    IF generic # <<>> /\ Trim(generic) # <<>> THEN Append(rs, Trim(generic)) ELSE rs

\* lines 113-115: the Rules section
WithRulesSection(secs, rs) ==
    IF Len(rs) > 0 THEN Append(secs, <<"Rules:", "\n", "\n">> \o Join(rs, BlankLine)) ELSE secs

\* lines 119-128: the banner ahead of a non-empty document
WithBanner(joinedSections) ==
    IF joinedSections # <<>> THEN Banner \o joinedSections ELSE <<>>

(***************************************************************************)
(* Inputs of the custom-instructions functions                             *)
(***************************************************************************)
RuleSourceNames == {ModeRuleFile("code")} \cup Range(ruleFiles)

RuleText == <<" ", "rule text", "\n">>
BlankText == <<" ", "\n">>

RuleFiles ==
    {RuleFile(RuleText, ""), RuleFile(BlankText, "")}
        \cup {RuleFile(<<>>, e) : e \in {"ENOENT", "EISDIR", "EACCES"}}

\* every state of a rule source
AllSources ==
    {RuleAbsent} \cup RuleFiles \cup {RuleDir(tr, TRUE) : tr \in Trees}
        \cup {RuleDir(EmptyTree, FALSE)}

\* rule sources with directories holding at most the top-level file a.md
SmallSources ==
    RuleFiles \cup {RuleDir(tr, TRUE) :
                       tr \in {x \in Trees : \A p \in Range(TreePaths) \ {<<DirNames[1]>>} :
                                                x[p] = "absent"}}

RuleWorkspaces ==
    UNION {{[n \in RuleSourceNames |-> IF n \in P THEN g[n] ELSE RuleAbsent] :
                g \in [P -> SmallSources]} :
           P \in {Q \in SUBSET RuleSourceNames : Cardinality(Q) <= MaxRuleSources}}

InstructionTexts(word) == {BlankText, <<" ", word, "\n">>}

InitLocals ==
    /\ fileIdx = 1
    /\ combinedRules = <<>>
    /\ modeRuleContent = <<>>
    /\ sections = <<>>
    /\ rules = <<>>
    /\ iresult = Pending
    /\ iruns = 0
    /\ iprev = Pending

\* loadRuleFiles(cwd) about to run
InitLoad ==
    /\ entry = "load"
    /\ \E c \in AllSources, o \in [{".cursorrules", ".windsurfrules"}
                                       -> {RuleAbsent, RuleFile(RuleText, "")}] :
          rfs = [n \in RuleSourceNames |->
                    IF n = ".clinerules" THEN c
                    ELSE IF n \in DOMAIN o THEN o[n] ELSE RuleAbsent]
    /\ mode = ""
    /\ language = ""
    /\ globalCustomInstructions = <<>>
    /\ modeCustomInstructions = <<>>
    /\ rooIgnoreInstructions = <<>>
    /\ ipc = "load"
    /\ InitLocals

\* addCustomInstructions(...) about to run
InitBuild ==
    /\ entry = "build"
    /\ rfs \in RuleWorkspaces
    /\ mode \in {"", "code"}
    /\ language \in {"", "fr"}
    /\ globalCustomInstructions \in InstructionTexts("global text")
    /\ modeCustomInstructions \in InstructionTexts("mode text")
    /\ rooIgnoreInstructions \in {<<>>, <<"# .rooignore">>}
    /\ ipc = "start"
    /\ InitLocals

IdleInstr ==
    /\ entry = "none"
    /\ rfs = [n \in RuleSourceNames |-> RuleAbsent]
    /\ mode = ""
    /\ language = ""
    /\ globalCustomInstructions = <<>>
    /\ modeCustomInstructions = <<>>
    /\ rooIgnoreInstructions = <<>>
    /\ ipc = "idle"
    /\ InitLocals

(***************************************************************************)
(* Steps of loadRuleFiles and addCustomInstructions                        *)
(***************************************************************************)
inputVars == <<entry, rfs, mode, language, globalCustomInstructions, modeCustomInstructions,
               rooIgnoreInstructions>>

\* loadRuleFiles, lines 50-57: one iteration of the loop, the return after the last
LRF_Settle(r) ==
    IF IsThrow(r)
    THEN /\ iresult' = r
         /\ ipc' = "done"
         /\ UNCHANGED <<combinedRules, fileIdx>>
    ELSE /\ combinedRules' = r.text
         /\ IF fileIdx = Len(ruleFiles)
            THEN /\ iresult' = r
                 /\ ipc' = "done"
                 /\ fileIdx' = fileIdx
            ELSE /\ iresult' = iresult
                 /\ ipc' = "load"
                 /\ fileIdx' = fileIdx + 1

LRF_Iter ==
    /\ entry = "load"
    /\ ipc = "load"
    /\ LRF_Settle(LoadRuleFile(combinedRules, ruleFiles[fileIdx], rfs[ruleFiles[fileIdx]]))
    /\ UNCHANGED <<inputVars, modeRuleContent, sections, rules, iruns, iprev, lintVars, cmdVars>>

\* sections as the previous invocation left them
LeftoverSections == sections

\* line 67: const sections = []
FreshSections == <<>>

\* addCustomInstructions, lines 67-74: fresh locals, the mode rule file
ACI_ModeRuleRead(r) ==
    IF IsThrow(r)
    THEN /\ iresult' = r
         /\ ipc' = "done"
         /\ modeRuleContent' = <<>>
    ELSE /\ iresult' = Pending
         /\ ipc' = "sections"
         /\ modeRuleContent' = r.text

ACI_ReadModeRule ==
    /\ entry = "build"
    /\ ipc = "start"
    /\ sections' = FreshSections
    /\ rules' = <<>>
    /\ combinedRules' = <<>>
    /\ ACI_ModeRuleRead(IF mode # ""
                        THEN safeReadFile(ModeRuleFile(mode), rfs[ModeRuleFile(mode)])
                        ELSE Ok(<<>>))
    /\ UNCHANGED <<inputVars, fileIdx, iruns, iprev, lintVars, cmdVars>>

\* lines 76-108: the leading sections, the first rules, the call of loadRuleFiles
ACI_RulesLoaded(r) ==
    IF IsThrow(r)
    THEN /\ iresult' = r
         /\ ipc' = "done"
         /\ combinedRules' = combinedRules
    ELSE /\ iresult' = iresult
         /\ ipc' = "assemble"
         /\ combinedRules' = r.text

ACI_LoadRules ==
    /\ entry = "build"
    /\ ipc = "sections"
    /\ sections' = sections \o LeadingSections(language, globalCustomInstructions,
                                               modeCustomInstructions)
    /\ rules' = rules \o RulesBeforeLoad(mode, modeRuleContent, rooIgnoreInstructions)
    /\ ACI_RulesLoaded(loadRuleFiles(rfs))
    /\ UNCHANGED <<inputVars, fileIdx, modeRuleContent, iruns, iprev, lintVars, cmdVars>>

\* lines 109-128: the generic rules, the Rules section, the document
ACI_Return ==
    /\ entry = "build"
    /\ ipc = "assemble"
    /\ rules' = RulesAfterLoad(rules, combinedRules)
    /\ sections' = WithRulesSection(sections, rules')
    /\ iresult' = Ok(WithBanner(Join(sections', BlankLine)))
    /\ ipc' = "done"
    /\ UNCHANGED <<inputVars, fileIdx, combinedRules, modeRuleContent, iruns, iprev, lintVars,
                   cmdVars>>

\* a further call of addCustomInstructions once the previous one has settled
InstrReinvoke ==
    /\ entry = "build"
    /\ ipc = "done"
    /\ iruns + 1 < MaxRuns
    /\ iruns' = iruns + 1
    /\ iprev' = iresult
    /\ iresult' = Pending
    /\ ipc' = "start"
    /\ UNCHANGED <<inputVars, fileIdx, combinedRules, modeRuleContent, sections, rules, lintVars,
                   cmdVars>>

(***************************************************************************)
(* Specifications                                                          *)
(***************************************************************************)
InitSpecLint == InitLint /\ IdleCmd /\ IdleInstr

NextLint == IP_Probe \/ IP_Scan \/ SP_GetConfigPath \/ SP_Probe

SpecLint == InitSpecLint /\ [][NextLint]_vars

InitSpecCmd == IdleLint /\ InitCmd /\ IdleInstr

NextCmd == OnStdoutData \/ OnStderrData \/ OnClose \/ OnError

SpecCmd == InitSpecCmd /\ [][NextCmd]_vars

InitSpecRules == IdleLint /\ IdleCmd /\ InitLoad

NextRules == LRF_Iter

SpecRules == InitSpecRules /\ [][NextRules]_vars

InitSpecInstr == IdleLint /\ IdleCmd /\ InitBuild

NextInstr == ACI_ReadModeRule \/ ACI_LoadRules \/ ACI_Return

SpecInstr == InitSpecInstr /\ [][NextInstr]_vars

\* both pipelines, each invoked repeatedly against the same filesystem
InitSpecRerun == InitSpecLint \/ InitSpecInstr

NextRerun ==
    \/ IP_Probe \/ IP_Scan \/ SP_GetConfigPath \/ SP_Probe \/ LintReinvoke
    \/ ACI_ReadModeRule \/ ACI_LoadRules \/ ACI_Return \/ InstrReinvoke

SpecRerun == InitSpecRerun /\ [][NextRerun]_vars

(***************************************************************************)
(* Claims about the linter resolution                                      *)
(***************************************************************************)
\* the order of the conventional config files as the specification lists it
ClaimedOrder ==
    <<".eslintrc", ".eslintrc.js", ".eslintrc.json", ".eslintrc.yaml", ".eslintrc.yml",
      "package.json">>

\* the config the probe yields when it succeeds, Null when it fails
ProbeConfig ==
    CASE probe.t = "config" -> probe.config
      [] probe.t = "resolved" ->
            IF \E v \in JsonValues : Stringify(v) = probe.text
            THEN CHOOSE v \in JsonValues : Stringify(v) = probe.text
            ELSE Null
      [] OTHER -> Null

RulesOf(config) == IF config.t = "obj" THEN config.rules ELSE Undefined

ProbeRules == RulesOf(ProbeConfig)

ProbeFailed == probe.t \in {"threw", "rejected"} \/ (probe.t = "resolved" /\ ProbeConfig = Null)

\* the config a file holds: its JSON (the embedded eslintConfig for package.json)
FileConfig(name) ==
    LET f == lfs[name]
        v == IF f.kind = "file" /\ \E w \in JsonValues : Stringify(w) = f.text
             THEN CHOOSE w \in JsonValues : Stringify(w) = f.text
             ELSE Null
    IN IF name # "package.json" THEN v
       ELSE IF v.t = "obj" /\ v.eslintConfig.t = "obj" THEN v.eslintConfig ELSE Null

FileRules(name) == RulesOf(FileConfig(name))

IsMap(r) == r.t = "map"
NonEmptyMap(r) == r.t = "map" /\ r.m # {}

\* absent, unreadable, or present with a text that does not parse
FileBad(name) ==
    \/ lfs[name].kind \in {"absent", "unreadable"}
    \/ ~\E w \in JsonValues : Stringify(w) = lfs[name].text

\* the rules of the first source (probe, then the files in the claimed order) whose
\* rules satisfy Wins, Null when no source does
FirstWinner(Wins(_)) ==
    IF Wins(ProbeRules) THEN ProbeRules
    ELSE LET W == {i \in 1..Len(ClaimedOrder) : Wins(FileRules(ClaimedOrder[i]))}
         IN IF W = {} THEN Null
            ELSE FileRules(ClaimedOrder[CHOOSE i \in W : \A j \in W : i <= j])

\* C1: in both variants, when the probe was run and yields a non-empty rule mapping R,
\* resolve returns exactly R and no config file has been parsed.
C1_ProbeResultVerbatim ==
    (lpc = "done" /\ probed /\ NonEmptyMap(ProbeRules))
        => (lresult = ProbeRules /\ parsed = {})

\* C2: in both variants, with a workspace, the probe is always attempted, and null is
\* returned only when the probe and every listed config file produced no rules.
C2_NullOnlyAfterExhaustion ==
    (lpc = "done" /\ hasWorkspace)
        => /\ probed
           /\ lresult = Null =>
                 /\ ~NonEmptyMap(ProbeRules)
                 /\ \A n \in (IF variant = "inproc" THEN Range(ClaimedOrder)
                              ELSE Range(ClaimedOrder) \ {"package.json"}) :
                        ~NonEmptyMap(FileRules(n))

\* C3 (as stated): the in-process result is the rule mapping of the first source with a
\* NON-EMPTY rule mapping; a source with an empty mapping is skipped.
C3_FirstNonEmptyWins ==
    (lpc = "done" /\ variant = "inproc" /\ hasWorkspace)
        => lresult = FirstWinner(NonEmptyMap)

\* C3 (amended): the in-process result is the rule mapping of the first source (probe,
\* then files in the fixed order) that yields a config holding a rule mapping, empty or
\* not; absent, unparsable and rule-less sources are skipped; nothing is merged.
C3_FirstPresentRulesWin ==
    (lpc = "done" /\ variant = "inproc" /\ hasWorkspace)
        => lresult = FirstWinner(IsMap)

\* C3 witness: the probe failed, an unparsable file was skipped and a later file's
\* non-empty rules were returned
C3_Witness ==
    /\ lpc = "done" /\ variant = "inproc" /\ probe.t = "threw"
    /\ \E i, j \in 1..Len(ClaimedOrder) :
          /\ i < j
          /\ lfs[ClaimedOrder[i]] = File(Garbage)
          /\ NonEmptyMap(FileRules(ClaimedOrder[j]))
          /\ lresult = FileRules(ClaimedOrder[j])

\* C4: in both variants resolve never throws or rejects; when the probe failed and every
\* config source is absent, unreadable or malformed it returns null; and the failure of
\* one source never ends the resolution: after a failed probe a null result is returned
\* only once every listed config file that exists has been read.
C4_NoFailureAbortsResolution ==
    /\ ~IsThrow(lresult)
    /\ (lpc = "done" /\ ProbeFailed /\ \A n \in Range(ClaimedOrder) : FileBad(n))
           => lresult = Null
    /\ (lpc = "done" /\ probed /\ ProbeFailed /\ lresult = Null)
           => \A n \in (IF variant = "inproc" THEN Range(getESLintConfigPaths)
                        ELSE Range(getESLintConfigPathsSub)) :
                  ExistsSync(lfs[n]) => n \in parsed

(***************************************************************************)
(* Claims about runCommand                                                 *)
(***************************************************************************)
\* C9: once settled, the promise is resolved (with the accumulated stdout) exactly when
\* the first of the close/error events was a close with exit code 0 or 1; any other
\* ending (another code, a signal with no exit code, an error) rejects it.
C9_ResolvedIffExitZeroOrOne ==
    cpromise.t # "pending"
        => /\ cpromise.t = "resolved"
                <=> /\ firstTerminal.t = "close"
                    /\ firstTerminal.code.t = "int"
                    /\ firstTerminal.code.n \in {0, 1}
           /\ cpromise.t = "resolved" => cpromise.text = output

(***************************************************************************)
(* Claims about the custom instructions                                    *)
(***************************************************************************)
\* the tokens that open each part of the document, in the claimed order
Markers ==
    << {"Language Preference:"},
       {"Global Instructions:"},
       {"Mode-specific Instructions:"},
       {"Rules:"},
       {"# Rules from .clinerules-code:"},
       {"# .rooignore"},
       {"# .clinerules", "# .clinerules/"},
       {"# .cursorrules", "# .cursorrules/"},
       {"# .windsurfrules", "# .windsurfrules/"} >>

Positions(doc, M) == {i \in 1..Len(doc) : doc[i] \in M}

\* the rule sources one invocation of addCustomInstructions reads
Consulted == Range(ruleFiles) \cup (IF mode # "" THEN {ModeRuleFile(mode)} ELSE {})

\* C5: in the returned document every part that is present occurs once, the parts are
\* in the order language, global, mode-specific, Rules, and inside Rules mode rule
\* file, ignore instructions, .clinerules, .cursorrules, .windsurfrules.
C5_FixedSectionOrder ==
    (entry = "build" /\ ipc = "done" /\ iresult.t = "ok")
        => /\ \A a \in 1..Len(Markers) : Cardinality(Positions(iresult.text, Markers[a])) <= 1
           /\ \A a, b \in 1..Len(Markers) :
                 a < b => \A p \in Positions(iresult.text, Markers[a]),
                             q \in Positions(iresult.text, Markers[b]) : p < q

\* C5 witness: language, global and mode instructions, mode rule file, ignore
\* instructions and a generic rule file are all in the document
C5_Witness ==
    /\ entry = "build" /\ ipc = "done" /\ iresult.t = "ok"
    /\ \A a \in 1..6 : Positions(iresult.text, Markers[a]) # {}
    /\ \E a \in 7..9 : Positions(iresult.text, Markers[a]) # {}

\* a rule source that provides no rule-file content
NoRuleContent(src) ==
    \/ src.kind = "absent"
    \/ src.kind = "file" /\ (src.err # "" \/ Trim(src.text) = <<>>)
    \/ src.kind = "dir" /\ \A p \in Range(TreePaths) : src.tree[p] # "ok"

\* C6: with no language option, global and mode instructions empty after trimming, no
\* ignore instructions and no rule source providing rule-file content, the result is
\* the empty string: no banner, no section.
C6_EmptyWhenNoContent ==
    (/\ entry = "build" /\ ipc = "done" /\ iresult.t = "ok"
     /\ language = ""
     /\ Trim(globalCustomInstructions) = <<>>
     /\ Trim(modeCustomInstructions) = <<>>
     /\ rooIgnoreInstructions = <<>>
     /\ \A n \in Consulted : NoRuleContent(rfs[n]))
        => iresult.text = <<>>

\* the block the claim expects for a file beneath the .clinerules directory
ExpectedBlock(rel) ==
    <<Cwd \o "/.clinerules/" \o JoinPath(rel) \o ":", "\n">> \o Trim(ContentOf(rel))

Occurrences(doc, part) ==
    {i \in 1..Len(doc) : i + Len(part) - 1 <= Len(doc) /\ SubSeq(doc, i, i + Len(part) - 1) = part}

\* C7: when .clinerules is a listable directory whose files are all readable, what
\* loadRuleFiles has combined after reading it holds the directory label once and, for
\* every regular file beneath the directory at any depth, exactly one block labelled
\* with that file's own path followed by its trimmed content.
C7_EveryFileOwnBlock ==
    (/\ entry = "load" /\ fileIdx = 2
     /\ rfs[".clinerules"].kind = "dir" /\ rfs[".clinerules"].listable
     /\ \A p \in Range(TreePaths) : rfs[".clinerules"].tree[p] # "eacces")
        => /\ Cardinality(Positions(combinedRules, {"# .clinerules/"})) = 1
           /\ \A p \in Range(TreePaths) :
                 rfs[".clinerules"].tree[p] = "ok"
                     => Cardinality(Occurrences(combinedRules, ExpectedBlock(p))) = 1

\* a single-file source whose read fails with an error other than ENOENT and EISDIR
FatalFile(n) == rfs[n].kind = "file" /\ rfs[n].err \notin {"", "ENOENT", "EISDIR"}

\* a single-file source whose read fails with ENOENT or EISDIR
SwallowedFile(n) == rfs[n].kind = "file" /\ rfs[n].err \in {"ENOENT", "EISDIR"}

\* a directory source that cannot be listed or holds a file whose read fails
FailingDir(n) ==
    /\ rfs[n].kind = "dir"
    /\ (~rfs[n].listable \/ \E p \in Range(TreePaths) : rfs[n].tree[p] = "eacces")

Contributes(doc, n) == Positions(doc, {"# " \o n, "# " \o n \o "/"}) # {}

\* C8 (as stated): addCustomInstructions fails exactly when a consulted source hits an
\* I/O error other than ENOENT/EISDIR, in the single-file branch and in the directory
\* branch alike.
C8_FatalInBothBranches ==
    (entry = "build" /\ ipc = "done")
        => (IsThrow(iresult) <=> \E n \in Consulted : FatalFile(n) \/ FailingDir(n))

\* C8 (amended): addCustomInstructions fails exactly when a consulted single-file source
\* hits an I/O error other than ENOENT/EISDIR, and then with that error; a single-file
\* source failing with ENOENT/EISDIR, and a directory source with any failure while it
\* is listed or its files are read, contribute nothing to the document.
C8_FatalOnlyInFileBranch ==
    (entry = "build" /\ ipc = "done")
        => /\ IsThrow(iresult) <=> \E n \in Consulted : FatalFile(n)
           /\ IsThrow(iresult) => iresult.code \notin {"ENOENT", "EISDIR"}
           /\ iresult.t = "ok"
                 => \A n \in Consulted :
                       (SwallowedFile(n) \/ FailingDir(n)) => ~Contributes(iresult.text, n)

\* C8 witness: a directory with an unreadable file was passed over and a later
\* single-file source's EACCES ended the invocation
C8_Witness ==
    /\ entry = "build" /\ ipc = "done" /\ IsThrow(iresult)
    /\ FailingDir(".clinerules")
    /\ \E n \in {".cursorrules", ".windsurfrules"} : FatalFile(n)

(***************************************************************************)
(* Claims about both pipelines                                             *)
(***************************************************************************)
\* C10: a later invocation against the same filesystem (and the same probe answer)
\* returns what the previous invocation returned.
C10_SameResultOnReinvocation ==
    /\ (lpc = "done" /\ lruns >= 1) => lresult = lprev
    /\ (ipc = "done" /\ iruns >= 1) => iresult = iprev

\* C10 witness: a second addCustomInstructions returned a non-empty document again
C10_Witness ==
    /\ entry = "build" /\ ipc = "done" /\ iruns >= 1
    /\ iresult.t = "ok" /\ iresult.text # <<>>
    /\ Len(sections) >= 2

====
